---- MODULE Spec2Model ----
(***************************************************************************)
(* The dual-canvas manual editor of src/app.py (the HTML/JS block returned *)
(* by get_editor_html): two Fabric.js canvases (shirt, pants), the edit    *)
(* mode switch, upload / fit-to-zone / delete / download, and the texture  *)
(* synchronizer that crops every mapped face region of both canvases into  *)
(* the 128x128 face canvases of the Three.js body rig.                     *)
(*                                                                         *)
(* Pixels.  A raster is observed at sample points.  A colour is a triple   *)
(* <<kind, a, b>>: white, denim (#3d5a80), ghost (white under the 30%      *)
(* template pixel (a,b)), guide (stroke or label of a drop-zone guide) and *)
(* layer (a pixel of the uploaded image with id a).  Every face canvas is  *)
(* observed at the texture coordinates TexSamples.                         *)
(*                                                                         *)
(* Numbers.  left/top are integers.  A scale factor is the pair <<n, d>>   *)
(* standing for the IEEE-754 double nearest n/d, which is what the         *)
(* JavaScript quotient n / d produces.                                     *)
(***************************************************************************)
EXTENDS Integers, Sequences, FiniteSets, TLC

\* ------------------------------------------------------------------ bounds

\* user images created in one session (ids 1..MaxLayers)
MaxLayers == 2
\* user and environment events in one session
MaxSteps == 5
\* file uploads in flight (chosen, not yet decoded) at one time
MaxPending == 1
\* runs of main that are followed
MaxRuns == 3

\* --------------------------------------------------------------- constants

CANVAS_W == 585
CANVAS_H == 600
\* width / height of every face canvas
TEX_SIZE == 128
\* the template image is 585 x 559; scaleToWidth(CANVAS_W) leaves its height
ROBLOX_HEIGHT == 559
\* significand bits of a JavaScript number (IEEE-754 binary64)
MANT_BITS == 53

Modes == {"shirt", "pants"}
None == 0

FACE_ORDER == <<"right", "left", "top", "bottom", "front", "back">>
Faces == {FACE_ORDER[i] : i \in 1..Len(FACE_ORDER)}

\* a face without a region (null in the source)
NULL_REGION == [x |-> 0, y |-> 0, w |-> 0, h |-> 0]

Rect(x, y, w, h) == [x |-> x, y |-> y, w |-> w, h |-> h]

\* faulty variant: the back face of a limb is as wide as a torso face
ArmFaces_wide(x0) ==
    [front  |-> Rect(x0, 388, 64, 128),
     back   |-> Rect(x0 + 65, 388, 128, 128),
     right  |-> Rect(x0 - 64, 388, 64, 128),
     left   |-> Rect(x0 + 64, 388, 64, 128),
     top    |-> Rect(x0, 323, 64, 64),
     bottom |-> Rect(x0, 516, 64, 43)]

\* the six face regions of a limb whose front face starts at column x0

ArmFaces(x0) ==
    [front  |-> Rect(x0, 388, 64, 128),
     back   |-> Rect(x0 + 65, 388, 64, 128),
     right  |-> Rect(x0 - 64, 388, 64, 128),
     left   |-> Rect(x0 + 64, 388, 64, 128),
     top    |-> Rect(x0, 323, 64, 64),
     bottom |-> Rect(x0, 516, 64, 43)]

BODY_PARTS ==
    [torso    |-> [textureSource |-> "shirt",
                   faces |-> [front  |-> Rect(128, 128, 128, 128),
                              back   |-> Rect(327, 128, 128, 128),
                              right  |-> Rect(64, 128, 64, 128),
                              left   |-> Rect(256, 128, 64, 128),
                              top    |-> Rect(128, 0, 128, 64),
                              bottom |-> Rect(128, 256, 128, 64)]],
     rightArm |-> [textureSource |-> "shirt", faces |-> ArmFaces(64)],
     leftArm  |-> [textureSource |-> "shirt", faces |-> ArmFaces(455)],
     rightLeg |-> [textureSource |-> "pants", faces |-> ArmFaces(64)],
     leftLeg  |-> [textureSource |-> "pants", faces |-> ArmFaces(455)],
     head     |-> [textureSource |-> "none",
                   faces |-> [f \in Faces |-> NULL_REGION]]]

PartNames == DOMAIN BODY_PARTS

\* faulty variant: the front zone is two pixels right of the torso front
FIT_ZONES_offset ==
    [front |-> Rect(130, 128, 128, 128),
     back  |-> Rect(327, 128, 128, 128),
     r_arm |-> Rect(64, 388, 64, 128),
     l_arm |-> Rect(455, 388, 64, 128)]

FIT_ZONES ==
    [front |-> Rect(128, 128, 128, 128),
     back  |-> Rect(327, 128, 128, 128),
     r_arm |-> Rect(64, 388, 64, 128),
     l_arm |-> Rect(455, 388, 64, 128)]

ZoneNames == DOMAIN FIT_ZONES

DROP_ZONES ==
    <<[key |-> "torso_front", x |-> 128, y |-> 128, w |-> 128, h |-> 128,
       label |-> "FRONT", labelY |-> -20],
      [key |-> "torso_back", x |-> 327, y |-> 128, w |-> 128, h |-> 128,
       label |-> "BACK", labelY |-> -20],
      [key |-> "right_arm", x |-> 0, y |-> 323, w |-> 192, h |-> 236,
       label |-> "R. ARM/LEG", labelY |-> -20],
      [key |-> "left_arm", x |-> 393, y |-> 323, w |-> 192, h |-> 236,
       label |-> "L. ARM/LEG", labelY |-> -20]>>

\* ------------------------------------------------------- colours and pixels

WHITE == <<"white", 0, 0>>
DENIM == <<"denim", 0, 0>>
GUIDE == <<"guide", 0, 0>>
Ghost(px, py) == <<"ghost", px, py>>
LayerColour(id) == <<"layer", id, 0>>

\* texture coordinates at which a face canvas is observed
TexSamples == {<<0, 0>>, <<64, 64>>, <<127, 127>>}

\* ------------------------------------------------------------ fabric objects

ONE == <<1, 1>>

\* characters of a guide label; a glyph of the 14px bold label is taken as
\* 8 x 16 pixels
LabelChars == [FRONT |-> 5, BACK |-> 4]
LabelWidth(label) ==
    8 * (IF label \in DOMAIN LabelChars THEN LabelChars[label] ELSE 10)

\* new fabric.Text(zone.label, {...}) of the i-th drop zone
GuideText(i) ==
    LET zone == DROP_ZONES[i] IN
    [id |-> 1 - 2 * i, isGuide |-> TRUE, kind |-> "text",
     left |-> zone.x + zone.w \div 2, top |-> zone.y + zone.labelY,
     width |-> LabelWidth(zone.label), height |-> 16,
     scaleX |-> ONE, scaleY |-> ONE, angle |-> 0,
     originX |-> "center", visible |-> TRUE]

\* new fabric.Rect({...}) of the i-th drop zone
GuideRect(i) ==
    LET zone == DROP_ZONES[i] IN
    [id |-> 0 - 2 * i, isGuide |-> TRUE, kind |-> "rect",
     left |-> zone.x, top |-> zone.y,
     width |-> zone.w, height |-> zone.h,
     scaleX |-> ONE, scaleY |-> ONE, angle |-> 0,
     originX |-> "left", visible |-> TRUE]

\* the guides in the order initCanvas adds them: text, rect per drop zone
GuideObjects ==
    [k \in 1..(2 * Len(DROP_ZONES)) |->
        IF k % 2 = 1 THEN GuideText((k + 1) \div 2) ELSE GuideRect(k \div 2)]

\* fabric.Image of natural size w x h
NewImage(id, w, h) ==
    [id |-> id, isGuide |-> FALSE, kind |-> "image",
     left |-> 0, top |-> 0, width |-> w, height |-> h,
     scaleX |-> ONE, scaleY |-> ONE, angle |-> 0,
     originX |-> "left", visible |-> TRUE]

\* new fabric.Canvas(canvasId, {backgroundColor: '#ffffff', ...}) with the
\* guides added; the template image is not loaded yet
initCanvas == [objects |-> GuideObjects, active |-> None, bgLoaded |-> FALSE]

ObjectIds(c) == {c.objects[i].id : i \in 1..Len(c.objects)}
IndexOf(c, id) == CHOOSE i \in 1..Len(c.objects) : c.objects[i].id = id
ObjectOf(c, id) == c.objects[IndexOf(c, id)]
getActiveObject(c) == c.active
setActiveObject(c, id) == [c EXCEPT !.active = id]
discardActiveObject(c) == [c EXCEPT !.active = None]

\* the user images of a canvas, bottom to top
Layers(c) == SelectSeq(c.objects, LAMBDA o : ~o.isGuide)
LayerIds(c) == {c.objects[i].id : i \in {j \in 1..Len(c.objects) : ~c.objects[j].isGuide}}
GuideIds(c) == {c.objects[i].id : i \in {j \in 1..Len(c.objects) : c.objects[j].isGuide}}

\* canvas.add(obj): push on top of the stack
AddObject(c, o) == [c EXCEPT !.objects = Append(@, o)]

\* canvas.remove(obj): splice it out; removing the active object clears the
\* selection before object:removed fires
RemoveObject(c, id) ==
    [c EXCEPT !.objects = SelectSeq(@, LAMBDA o : o.id # id),
              !.active = IF @ = id THEN None ELSE @]

\* faulty variant: the object is moved to the bottom of the stack
bringToFront_toBack(c, id) ==
    IF id \in ObjectIds(c)
    THEN [c EXCEPT !.objects =
            <<ObjectOf(c, id)>> \o SelectSeq(@, LAMBDA o : o.id # id)]
    ELSE c

\* canvas.bringToFront(obj)
bringToFront(c, id) ==
    IF id \in ObjectIds(c)
    THEN [c EXCEPT !.objects =
            Append(SelectSeq(@, LAMBDA o : o.id # id), ObjectOf(c, id))]
    ELSE c

\* obj.set({...}) on the object with this id
SetObject(c, id, o) == [c EXCEPT !.objects[IndexOf(c, id)] = o]

\* ----------------------------------------------------------------- geometry

\* twice the displayed extent n * scale, as the fraction <<numerator, den>>
Extent2(n, scale) == <<2 * n * scale[1], scale[2]>>

\* 0 <= v < e for the doubled local coordinate v and the doubled extent e
Within(v, e) == v >= 0 /\ v * e[2] < e[1]

\* local (unrotated) doubled coordinates of the centre of pixel (px, py)
Local2(o, px, py) ==
    LET ox == IF o.originX = "center"
              THEN 2 * o.left - (o.width * o.scaleX[1]) \div o.scaleX[2]
              ELSE 2 * o.left
        dx == 2 * px + 1 - ox
        dy == 2 * py + 1 - 2 * o.top
    IN  CASE o.angle = 0   -> <<dx, dy>>
          [] o.angle = 90  -> <<dy, 0 - dx>>
          [] o.angle = 180 -> <<0 - dx, 0 - dy>>
          [] OTHER         -> <<0 - dy, dx>>

\* the pixel lies inside the object's (rotated, scaled) box
InBox(o, px, py) ==
    LET l == Local2(o, px, py) IN
    /\ Within(l[1], Extent2(o.width, o.scaleX))
    /\ Within(l[2], Extent2(o.height, o.scaleY))

\* stroke of a guide rectangle: strokeWidth 2, strokeDashArray [5, 5]
STROKE_WIDTH == 2
DASH == 5
OnStroke(o, px, py) ==
    LET x == px - o.left
        y == py - o.top
        outer == /\ x >= 0 /\ x < o.width + STROKE_WIDTH
                 /\ y >= 0 /\ y < o.height + STROKE_WIDTH
        inner == /\ x >= STROKE_WIDTH /\ x < o.width
                 /\ y >= STROKE_WIDTH /\ y < o.height
        t == IF y < STROKE_WIDTH THEN x
             ELSE IF x >= o.width THEN o.width + y
             ELSE IF y >= o.height THEN 2 * o.width + o.height - x
             ELSE 2 * o.width + 2 * o.height - y
    IN  outer /\ ~inner /\ (t % (2 * DASH)) < DASH

\* the object paints pixel (px, py)
Paints(o, px, py) ==
    /\ o.visible
    /\ IF o.kind = "rect" THEN OnStroke(o, px, py) ELSE InBox(o, px, py)

ObjectColour(o) == IF o.isGuide THEN GUIDE ELSE LayerColour(o.id)

\* canvas.toCanvasElement(): what is drawn at this moment, bottom to top
\* (selection controls are not drawn on an exported element)
toCanvasElement(c) ==
    [objects |-> SelectSeq(c.objects, LAMBDA o : o.visible),
     bgLoaded |-> c.bgLoaded]

RECURSIVE TopColour(_, _, _, _)
\* colour of the topmost of the first i objects of el that paints (px, py):
\* under them the template at 30% opacity when loaded, over the white
\* background colour
TopColour(el, i, px, py) ==
    IF i = 0
    THEN IF el.bgLoaded /\ py < ROBLOX_HEIGHT THEN Ghost(px, py) ELSE WHITE
    ELSE IF Paints(el.objects[i], px, py) THEN ObjectColour(el.objects[i])
    ELSE TopColour(el, i - 1, px, py)

\* colour of pixel (px, py) of a canvas element
PixelAt(el, px, py) == TopColour(el, Len(el.objects), px, py)

\* ------------------------------------------------- JavaScript number division

RECURSIVE CeilLog2(_)
\* least j with 2^j >= b, for b >= 1
CeilLog2(b) == IF b <= 1 THEN 0 ELSE 1 + CeilLog2((b + 1) \div 2)

RECURSIVE Pow2(_)
Pow2(e) == IF e = 0 THEN 1 ELSE 2 * Pow2(e - 1)

RECURSIVE Pow2Mod(_, _)
\* 2^e mod b
Pow2Mod(e, b) == IF e = 0 THEN 1 % b ELSE (2 * Pow2Mod(e - 1, b)) % b

IsPow2(a) == a >= 1 /\ Pow2(CeilLog2(a)) = a

\* For a power of two a and an integer b >= 1: the number of units in the
\* last place by which the double  b * (a / b)  lies below a.  a / b is the
\* 53-bit quotient rounded to nearest; with j = CeilLog2(b) its truncation
\* leaves the remainder r = 2^(52+j) mod b; the quotient is rounded down when
\* 2r < b, and the product a - r * 2^-(52+j) * a then rounds to a only if r
\* is at most half a unit (2^(j-2)) of the binade below a.
FlMulBackUlps(a, b) ==
    LET j == CeilLog2(b)
        r == Pow2Mod(MANT_BITS - 1 + j, b)
    IN  IF Pow2(j) = b THEN 0
        ELSE IF 2 * r < b /\ 4 * r > Pow2(j) THEN 1
        ELSE 0

\* ------------------------------------------------------------------- state

VARIABLES
    currentMode,     \* 'shirt' | 'pants'
    shirtCanvas,     \* fabric canvas of the shirt
    pantsCanvas,     \* fabric canvas of the pants
    hiddenCanvas,    \* canvases whose container has class hidden-canvas
    modeLabel,       \* className of #mode-label
    torsoOnlyHidden, \* the .torso-only buttons have class hidden
    legend,          \* contents of #legend
    faceCanvases,    \* <<part, face>> -> pixels of the face canvas
    needsUpdate,     \* <<part, face>> -> texture marked for re-upload
    templateFetch,   \* canvas -> "pending" | "loaded" | "failed"
    warmupPending,   \* the startup setTimeout has not fired yet
    uploads,         \* ids of the file uploads in flight
    nextId,          \* id of the next uploaded image
    chosenIn,        \* history: upload id -> mode when its file was chosen
    steps,           \* events handled so far
    alertMsg,        \* the alert raised by the handler that ran last
    saved,           \* the file saved by the handler that ran last
    lastOp,          \* the handler that ran last
    templateFile,    \* contents of shirt_overlay.png on the server's disk
    finalImage,      \* st.session_state['final_image']
    runs,            \* runs of main so far
    lastRun          \* history: what the last run of main did

vars == <<currentMode, shirtCanvas, pantsCanvas, hiddenCanvas, modeLabel,
          torsoOnlyHidden, legend, faceCanvases, needsUpdate, templateFetch,
          warmupPending, uploads, nextId, chosenIn, steps, alertMsg, saved,
          lastOp, templateFile, finalImage, runs, lastRun>>

\* the state of the Python side of the page
pipelineVars == <<templateFile, finalImage, runs, lastRun>>

\* the state of the editor component
editorVars ==
    <<currentMode, shirtCanvas, pantsCanvas, hiddenCanvas, modeLabel,
      torsoOnlyHidden, legend, faceCanvases, needsUpdate, templateFetch,
      warmupPending, uploads, nextId, chosenIn, steps, alertMsg, saved,
      lastOp>>

\* the page state the handlers read and write, as one record; syncRuns counts
\* the updateAllTextures runs and alertMsg holds the alert of one handler
St ==
    [currentMode |-> currentMode, shirtCanvas |-> shirtCanvas,
     pantsCanvas |-> pantsCanvas, hiddenCanvas |-> hiddenCanvas,
     modeLabel |-> modeLabel, torsoOnlyHidden |-> torsoOnlyHidden,
     legend |-> legend, faceCanvases |-> faceCanvases,
     needsUpdate |-> needsUpdate, syncRuns |-> 0, alertMsg |-> "none"]

CanvasOf(S, m) == IF m = "shirt" THEN S.shirtCanvas ELSE S.pantsCanvas
SetCanvas(S, m, c) ==
    IF m = "shirt" THEN [S EXCEPT !.shirtCanvas = c]
    ELSE [S EXCEPT !.pantsCanvas = c]

getActiveCanvas(S) == CanvasOf(S, S.currentMode)

\* ---------------------------------------------------------- body part rig

\* faulty variant: every face of every part, the head included, gets a face
\* canvas and a texture
MappedFaces_all == PartNames \X Faces

\* the (part, face) pairs that get a face canvas and a texture
MappedFaces ==
    {pf \in PartNames \X Faces : BODY_PARTS[pf[1]].faces[pf[2]] # NULL_REGION}

Fill(colour) == [uv \in TexSamples |-> colour]

\* default colour of a new face canvas
DefaultFill(partName) ==
    IF BODY_PARTS[partName].textureSource = "pants" THEN DENIM ELSE WHITE

\* the face canvases created with the body parts
CreateFaceCanvases == [pf \in MappedFaces |-> Fill(DefaultFill(pf[1]))]

\* the material of each face of each mesh: the shared skin material where the
\* part declares no region, a material on the face's own texture elsewhere
Materials ==
    [pf \in PartNames \X Faces |->
        IF pf \in MappedFaces THEN "texture" ELSE "skinMaterial"]

\* -------------------------------------------------------- texture synchronizer

\* faulty variant: the element is taken before the guides are hidden and
\* the guides are hidden afterwards instead of restored
getCleanCanvasElement_late(fabricCanvas) ==
    LET SetGuides(c, v) ==
            [c EXCEPT !.objects =
                [i \in DOMAIN @ |->
                    IF @[i].isGuide THEN [@[i] EXCEPT !.visible = v]
                    ELSE @[i]]]
        activeObj == getActiveObject(fabricCanvas)
        clean == discardActiveObject(fabricCanvas)
        canvasElement == toCanvasElement(clean)
        hidden == SetGuides(clean, FALSE)
        restored == IF activeObj # None
                    THEN setActiveObject(hidden, activeObj) ELSE hidden
    IN  [canvas |-> restored, el |-> canvasElement, snapshot |-> clean]

\* faulty variant: the guides stay visible while the element is taken
getCleanCanvasElement_noHide(fabricCanvas) ==
    LET activeObj == getActiveObject(fabricCanvas)
        clean == discardActiveObject(fabricCanvas)
        canvasElement == toCanvasElement(clean)
        restored == IF activeObj # None
                    THEN setActiveObject(clean, activeObj) ELSE clean
    IN  [canvas |-> restored, el |-> canvasElement, snapshot |-> clean]

\* faulty variant: the selection is discarded and not set again
getCleanCanvasElement_noRestore(fabricCanvas) ==
    LET SetGuides(c, v) ==
            [c EXCEPT !.objects =
                [i \in DOMAIN @ |->
                    IF @[i].isGuide THEN [@[i] EXCEPT !.visible = v]
                    ELSE @[i]]]
        clean == discardActiveObject(SetGuides(fabricCanvas, FALSE))
        canvasElement == toCanvasElement(clean)
    IN  [canvas |-> SetGuides(clean, TRUE), el |-> canvasElement,
         snapshot |-> clean]

\* getCleanCanvasElement(fabricCanvas): the canvas after the call, the
\* exported element, and the canvas as it was when the element was taken
getCleanCanvasElement(fabricCanvas) ==
    LET \* guides.forEach(obj => obj.set('visible', v))
        SetGuides(c, v) ==
            [c EXCEPT !.objects =
                [i \in DOMAIN @ |->
                    IF @[i].isGuide THEN [@[i] EXCEPT !.visible = v]
                    ELSE @[i]]]
        activeObj == getActiveObject(fabricCanvas)
        clean == discardActiveObject(SetGuides(fabricCanvas, FALSE))
        canvasElement == toCanvasElement(clean)
        shown == SetGuides(clean, TRUE)
        restored == IF activeObj # None
                    THEN setActiveObject(shown, activeObj) ELSE shown
    IN  [canvas |-> restored, el |-> canvasElement, snapshot |-> clean]

\* ctx.fillRect white, then ctx.drawImage(source, region, 0, 0, 128, 128):
\* texture pixel (u, v) shows source pixel (x + u*w/128, y + v*h/128);
\* outside the source sheet nothing is drawn over the white fill
DrawRegion(sourceCanvas, region) ==
    [uv \in TexSamples |->
        LET sx == region.x + (uv[1] * region.w) \div TEX_SIZE
            sy == region.y + (uv[2] * region.h) \div TEX_SIZE
        IN  IF sx >= 0 /\ sx < CANVAS_W /\ sy >= 0 /\ sy < CANVAS_H
            THEN PixelAt(sourceCanvas, sx, sy)
            ELSE WHITE]

\* does updateAllTextures write the face canvas of this pair
Synced(pf) ==
    /\ BODY_PARTS[pf[1]].textureSource \in {"shirt", "pants"}
    /\ BODY_PARTS[pf[1]].faces[pf[2]] # NULL_REGION

\* faulty variant: only the faces fed by the active canvas are rewritten
updateAllTextures_activeOnly(S) ==
    LET active == getCleanCanvasElement(getActiveCanvas(S))
        Touched(pf) ==
            Synced(pf) /\ BODY_PARTS[pf[1]].textureSource = S.currentMode
    IN  [SetCanvas(S, S.currentMode, active.canvas) EXCEPT
           !.faceCanvases =
               [pf \in DOMAIN @ |->
                  IF Touched(pf)
                  THEN DrawRegion(active.el, BODY_PARTS[pf[1]].faces[pf[2]])
                  ELSE @[pf]],
           !.needsUpdate =
               [pf \in DOMAIN @ |-> IF Touched(pf) THEN TRUE ELSE @[pf]],
           !.syncRuns = @ + 1]

updateAllTextures(S) ==
    LET shirt == getCleanCanvasElement(S.shirtCanvas)
        pants == getCleanCanvasElement(S.pantsCanvas)
        Source(partName) ==
            IF BODY_PARTS[partName].textureSource = "shirt"
            THEN shirt.el ELSE pants.el
    IN  [S EXCEPT
           !.shirtCanvas = shirt.canvas,
           !.pantsCanvas = pants.canvas,
           !.faceCanvases =
               [pf \in DOMAIN @ |->
                  IF Synced(pf)
                  THEN DrawRegion(Source(pf[1]),
                                  BODY_PARTS[pf[1]].faces[pf[2]])
                  ELSE @[pf]],
           !.needsUpdate =
               [pf \in DOMAIN @ |-> IF Synced(pf) THEN TRUE ELSE @[pf]],
           !.syncRuns = @ + 1]

\* ------------------------------------------------------------ mode switching

\* the visibility, label, button and legend updates of switchMode
ShowMode(S, newMode) ==
    [S EXCEPT
        !.currentMode = newMode,
        !.hiddenCanvas = IF newMode = "shirt"
                         THEN (@ \ {"shirt"}) \cup {"pants"}
                         ELSE (@ \cup {"shirt"}) \ {"pants"},
        !.modeLabel = IF newMode = "shirt"
                      THEN "mode-indicator shirt"
                      ELSE "mode-indicator pants",
        !.torsoOnlyHidden = (newMode # "shirt"),
        !.legend = IF newMode = "shirt"
                   THEN <<"Torso", "Right Arm", "Left Arm">>
                   ELSE <<"Right Leg", "Left Leg">>]

\* faulty variant: the canvas that gets hidden is reset to its guides
switchMode_discard(S, newMode) ==
    IF newMode = S.currentMode THEN S
    ELSE SetCanvas(ShowMode(S, newMode), S.currentMode,
             [initCanvas EXCEPT !.bgLoaded = CanvasOf(S, S.currentMode).bgLoaded])

\* faulty variant: the pants branch toggles the containers the wrong way
switchMode_swapped(S, newMode) ==
    IF newMode = S.currentMode THEN S
    ELSE [ShowMode(S, newMode) EXCEPT
             !.hiddenCanvas = (S.hiddenCanvas \ {"shirt"}) \cup {"pants"}]

\* faulty variant: the switch ends with updateAllTextures
switchMode_sync(S, newMode) ==
    IF newMode = S.currentMode THEN S
    ELSE [updateAllTextures(ShowMode(S, newMode)) EXCEPT !.syncRuns = 0]

\* faulty variant: the canvas that gets hidden loses its selection
switchMode_deselect(S, newMode) ==
    IF newMode = S.currentMode THEN S
    ELSE SetCanvas(ShowMode(S, newMode), S.currentMode,
                   discardActiveObject(CanvasOf(S, S.currentMode)))

\* switchMode(newMode): nothing when the mode is current, else the mode
\* variable and the visibility, label, button and legend updates

switchMode(S, newMode) ==
    IF newMode = S.currentMode THEN S ELSE ShowMode(S, newMode)

\* ------------------------------------------------------------------- upload

\* the fabric.Image.fromURL callback of the upload: img has natural size w x h
\* faulty variant: the image is scaled to height 128 instead of width 128
imageLoaded_toHeight(S, id, w, h) ==
    LET m == S.currentMode
        img == [NewImage(id, w, h) EXCEPT
                   !.left = 128, !.top = 128,
                   !.scaleX = <<128, h>>, !.scaleY = <<128, h>>]
        added == updateAllTextures(
                     SetCanvas(S, m, AddObject(getActiveCanvas(S), img)))
        front == SetCanvas(added, m,
                     bringToFront(setActiveObject(CanvasOf(added, m), id), id))
    IN  updateAllTextures(front)

\* faulty variant: the image object is added to the other canvas as well
imageLoaded_bothCanvases(S, id, w, h) ==
    LET m == S.currentMode
        other == IF m = "shirt" THEN "pants" ELSE "shirt"
        img == [NewImage(id, w, h) EXCEPT
                   !.left = 128, !.top = 128,
                   !.scaleX = <<128, w>>, !.scaleY = <<128, w>>]
        shared == SetCanvas(S, other, AddObject(CanvasOf(S, other), img))
        added == updateAllTextures(
                     SetCanvas(shared, m, AddObject(getActiveCanvas(S), img)))
        front == SetCanvas(added, m,
                     bringToFront(setActiveObject(CanvasOf(added, m), id), id))
    IN  updateAllTextures(front)

\* faulty variant: the canvas is the one that was active when the file was
\* chosen
imageLoaded_whenChosen(S, id, w, h) ==
    LET m == chosenIn[id]
        img == [NewImage(id, w, h) EXCEPT
                   !.left = 128, !.top = 128,
                   !.scaleX = <<128, w>>, !.scaleY = <<128, w>>]
        added == updateAllTextures(
                     SetCanvas(S, m, AddObject(CanvasOf(S, m), img)))
        front == SetCanvas(added, m,
                     bringToFront(setActiveObject(CanvasOf(added, m), id), id))
    IN  updateAllTextures(front)

imageLoaded(S, id, w, h) ==
    LET m == S.currentMode
        \* img.set({left: 128, top: 128}); img.scaleToWidth(128)
        img == [NewImage(id, w, h) EXCEPT
                   !.left = 128, !.top = 128,
                   !.scaleX = <<128, w>>, !.scaleY = <<128, w>>]
        \* canvas.add(img) fires object:added
        added == updateAllTextures(
                     SetCanvas(S, m, AddObject(getActiveCanvas(S), img)))
        front == SetCanvas(added, m,
                     bringToFront(setActiveObject(CanvasOf(added, m), id), id))
    IN  updateAllTextures(front)

\* --------------------------------------------------------------- fit to zone

\* faulty variant: the fit does not end with updateAllTextures
fitToZone_noSync(S, zoneName) ==
    LET canvas == getActiveCanvas(S)
        activeObj == getActiveObject(canvas)
    IN  IF activeObj = None
        THEN [S EXCEPT !.alertMsg = "Select an image first!"]
        ELSE IF zoneName \notin DOMAIN FIT_ZONES THEN S
        ELSE LET zone == FIT_ZONES[zoneName]
                 obj == ObjectOf(canvas, activeObj)
                 fitted == [obj EXCEPT
                              !.left = zone.x,
                              !.top = zone.y,
                              !.scaleX = <<zone.w, obj.width>>,
                              !.scaleY = <<zone.h, obj.height>>]
             IN  SetCanvas(S, S.currentMode,
                     bringToFront(SetObject(canvas, activeObj, fitted),
                                  activeObj))

\* faulty variant: the fit always works on the shirt canvas
fitToZone_shirtOnly(S, zoneName) ==
    LET canvas == S.shirtCanvas
        activeObj == getActiveObject(canvas)
    IN  IF activeObj = None
        THEN [S EXCEPT !.alertMsg = "Select an image first!"]
        ELSE IF zoneName \notin DOMAIN FIT_ZONES THEN S
        ELSE LET zone == FIT_ZONES[zoneName]
                 obj == ObjectOf(canvas, activeObj)
                 fitted == [obj EXCEPT
                              !.left = zone.x,
                              !.top = zone.y,
                              !.scaleX = <<zone.w, obj.width>>,
                              !.scaleY = <<zone.h, obj.height>>]
             IN  updateAllTextures(
                     SetCanvas(S, "shirt",
                         bringToFront(SetObject(canvas, activeObj, fitted),
                                      activeObj)))

\* faulty variant: one scale factor, zone.w / width, for both axes
fitToZone_uniform(S, zoneName) ==
    LET canvas == getActiveCanvas(S)
        activeObj == getActiveObject(canvas)
    IN  IF activeObj = None
        THEN [S EXCEPT !.alertMsg = "Select an image first!"]
        ELSE IF zoneName \notin DOMAIN FIT_ZONES THEN S
        ELSE LET zone == FIT_ZONES[zoneName]
                 obj == ObjectOf(canvas, activeObj)
                 fitted == [obj EXCEPT
                              !.left = zone.x,
                              !.top = zone.y,
                              !.scaleX = <<zone.w, obj.width>>,
                              !.scaleY = <<zone.w, obj.width>>]
             IN  updateAllTextures(
                     SetCanvas(S, S.currentMode,
                         bringToFront(SetObject(canvas, activeObj, fitted),
                                      activeObj)))

\* faulty variant: the fit also resets the rotation of the layer
fitToZone_resetAngle(S, zoneName) ==
    LET canvas == getActiveCanvas(S)
        activeObj == getActiveObject(canvas)
    IN  IF activeObj = None
        THEN [S EXCEPT !.alertMsg = "Select an image first!"]
        ELSE IF zoneName \notin DOMAIN FIT_ZONES THEN S
        ELSE LET zone == FIT_ZONES[zoneName]
                 obj == ObjectOf(canvas, activeObj)
                 fitted == [obj EXCEPT
                              !.left = zone.x,
                              !.top = zone.y,
                              !.angle = 0,
                              !.scaleX = <<zone.w, obj.width>>,
                              !.scaleY = <<zone.h, obj.height>>]
             IN  updateAllTextures(
                     SetCanvas(S, S.currentMode,
                         bringToFront(SetObject(canvas, activeObj, fitted),
                                      activeObj)))

fitToZone(S, zoneName) ==
    LET canvas == getActiveCanvas(S)
        activeObj == getActiveObject(canvas)
    IN  IF activeObj = None
        THEN [S EXCEPT !.alertMsg = "Select an image first!"]
        ELSE IF zoneName \notin DOMAIN FIT_ZONES THEN S
        ELSE LET zone == FIT_ZONES[zoneName]
                 obj == ObjectOf(canvas, activeObj)
                 fitted == [obj EXCEPT
                              !.left = zone.x,
                              !.top = zone.y,
                              !.scaleX = <<zone.w, obj.width>>,
                              !.scaleY = <<zone.h, obj.height>>]
             IN  updateAllTextures(
                     SetCanvas(S, S.currentMode,
                         bringToFront(SetObject(canvas, activeObj, fitted),
                                      activeObj)))

\* -------------------------------------------------------------------- delete

\* faulty variant: the textures are synced before the selection is looked at
deleteSelected_syncFirst(S) ==
    LET synced == [updateAllTextures(S) EXCEPT !.syncRuns = S.syncRuns]
        canvas == getActiveCanvas(synced)
        activeObj == getActiveObject(canvas)
    IN  IF activeObj = None
        THEN [synced EXCEPT !.alertMsg = "Select an image to delete!"]
        ELSE IF ObjectOf(canvas, activeObj).isGuide
        THEN [synced EXCEPT !.alertMsg = "Cannot delete guide elements!"]
        ELSE LET removed == updateAllTextures(
                     SetCanvas(synced, S.currentMode,
                               RemoveObject(canvas, activeObj)))
                 cleared == SetCanvas(removed, S.currentMode,
                     discardActiveObject(CanvasOf(removed, S.currentMode)))
             IN  updateAllTextures(cleared)

\* faulty variant: the lowest user layer is removed, not the selected one
deleteSelected_lowest(S) ==
    LET canvas == getActiveCanvas(S)
        activeObj == getActiveObject(canvas)
    IN  IF activeObj = None
        THEN [S EXCEPT !.alertMsg = "Select an image to delete!"]
        ELSE IF ObjectOf(canvas, activeObj).isGuide
        THEN [S EXCEPT !.alertMsg = "Cannot delete guide elements!"]
        ELSE LET lowest == Layers(canvas)[1].id
                 removed == updateAllTextures(
                     SetCanvas(S, S.currentMode,
                               RemoveObject(canvas, lowest)))
                 cleared == SetCanvas(removed, S.currentMode,
                     discardActiveObject(CanvasOf(removed, S.currentMode)))
             IN  updateAllTextures(cleared)

\* faulty variant: a selected guide is removed like a layer
deleteSelected_noGuard(S) ==
    LET canvas == getActiveCanvas(S)
        activeObj == getActiveObject(canvas)
    IN  IF activeObj = None
        THEN [S EXCEPT !.alertMsg = "Select an image to delete!"]
        ELSE LET removed == updateAllTextures(
                     SetCanvas(S, S.currentMode,
                               RemoveObject(canvas, activeObj)))
                 cleared == SetCanvas(removed, S.currentMode,
                     discardActiveObject(CanvasOf(removed, S.currentMode)))
             IN  updateAllTextures(cleared)

deleteSelected(S) ==
    LET canvas == getActiveCanvas(S)
        activeObj == getActiveObject(canvas)
    IN  IF activeObj = None
        THEN [S EXCEPT !.alertMsg = "Select an image to delete!"]
        ELSE IF ObjectOf(canvas, activeObj).isGuide
        THEN [S EXCEPT !.alertMsg = "Cannot delete guide elements!"]
        ELSE LET \* canvas.remove(activeObj) fires object:removed
                 removed == updateAllTextures(
                     SetCanvas(S, S.currentMode,
                               RemoveObject(canvas, activeObj)))
                 cleared == SetCanvas(removed, S.currentMode,
                     discardActiveObject(CanvasOf(removed, S.currentMode)))
             IN  updateAllTextures(cleared)

\* ------------------------------------------------------------------ gestures

\* the gestures happen on the canvas m that receives the pointer
\* a drag of the layer id: the pointer-down selects it, the move sets
\* left/top, then object:moving fires
objectMoving(S, m, id, pos) ==
    LET canvas == setActiveObject(CanvasOf(S, m), id)
        obj == ObjectOf(canvas, id)
    IN  updateAllTextures(
            SetCanvas(S, m,
                SetObject(canvas, id,
                    [obj EXCEPT !.left = pos[1], !.top = pos[2]])))

\* a drag of a scaling control of the selected layer, then object:scaling
objectScaling(S, m, scale) ==
    LET canvas == CanvasOf(S, m)
        obj == ObjectOf(canvas, canvas.active)
    IN  updateAllTextures(
            SetCanvas(S, m,
                SetObject(canvas, canvas.active,
                    [obj EXCEPT !.scaleX = scale, !.scaleY = scale])))

\* a drag of the rotation control of the selected layer, then object:rotating
objectRotating(S, m, angle) ==
    LET canvas == CanvasOf(S, m)
        obj == ObjectOf(canvas, canvas.active)
    IN  updateAllTextures(
            SetCanvas(S, m,
                SetObject(canvas, canvas.active,
                    [obj EXCEPT !.angle = angle])))

\* the pointer-up that ends a gesture: object:modified
objectModified(S) == updateAllTextures(S)

\* ------------------------------------------------------------------ download

\* a string is a sequence of characters; the default stem is one token
SPACE == " "
PNG == <<".", "p", "n", "g">>
ToLower(ch) ==
    CASE ch = "P" -> "p" [] ch = "N" -> "n" [] ch = "G" -> "g" [] OTHER -> ch

RECURSIVE TrimLeft(_)
TrimLeft(str) ==
    IF str # <<>> /\ Head(str) = SPACE THEN TrimLeft(Tail(str)) ELSE str
RECURSIVE TrimRight(_)
TrimRight(str) ==
    IF str # <<>> /\ str[Len(str)] = SPACE
    THEN TrimRight(SubSeq(str, 1, Len(str) - 1)) ELSE str
Trim(str) == TrimRight(TrimLeft(str))
\* faulty variant: the name is compared as typed
toLowerCase_asTyped(str) == str

toLowerCase(str) == [i \in DOMAIN str |-> ToLower(str[i])]
endsWith(str, suffix) ==
    /\ Len(str) >= Len(suffix)
    /\ SubSeq(str, Len(str) - Len(suffix) + 1, Len(str)) = suffix

\* pixels at which an exported PNG is observed: a guide corner, a guide
\* label, a spot the default upload covers, bare background above and below
\* the template's last row
ExportSamples ==
    {<<128, 128>>, <<192, 116>>, <<200, 200>>, <<300, 300>>, <<10, 580>>}

NO_FILE == [saved |-> FALSE, name |-> <<>>, image |-> <<>>]

\* variant that rasterizes the active canvas, whatever the button
downloadTexture_active(S, type, reply) ==
    LET canvas == getActiveCanvas(S)
        clean == getCleanCanvasElement(canvas)
        after == SetCanvas(S, S.currentMode, clean.canvas)
        defaultName == IF type = "shirt" THEN <<"roblox_shirt_design">>
                       ELSE <<"roblox_pants_design">>
        trimmed == IF Trim(reply.text) = <<>> THEN defaultName
                   ELSE Trim(reply.text)
        filename == IF ~endsWith(toLowerCase(trimmed), PNG)
                    THEN trimmed \o PNG ELSE trimmed
    IN  IF reply.cancelled THEN [state |-> after, file |-> NO_FILE]
        ELSE [state |-> after,
              file |-> [saved |-> TRUE, name |-> filename,
                        image |-> [p \in ExportSamples |->
                                      PixelAt(clean.el, p[1], p[2])]]]

\* downloadTexture(type) when the filename prompt answers reply
\* (reply.cancelled: the prompt returned null)
downloadTexture(S, type, reply) ==
    LET canvas == CanvasOf(S, IF type = "shirt" THEN "shirt" ELSE "pants")
        clean == getCleanCanvasElement(canvas)
        after == SetCanvas(S, IF type = "shirt" THEN "shirt" ELSE "pants",
                           clean.canvas)
        defaultName == IF type = "shirt" THEN <<"roblox_shirt_design">>
                       ELSE <<"roblox_pants_design">>
        trimmed == IF Trim(reply.text) = <<>> THEN defaultName
                   ELSE Trim(reply.text)
        filename == IF ~endsWith(toLowerCase(trimmed), PNG)
                    THEN trimmed \o PNG ELSE trimmed
    IN  IF reply.cancelled THEN [state |-> after, file |-> NO_FILE]
        ELSE [state |-> after,
              file |-> [saved |-> TRUE, name |-> filename,
                        image |-> [p \in ExportSamples |->
                                      PixelAt(clean.el, p[1], p[2])]]]

\* ------------------------------------------------------------------ inputs

\* natural sizes of the uploaded images
ImageSizes == {<<128, 128>>, <<98, 64>>}
\* where a drag may leave a layer
MovePositions == {<<40, 350>>}
\* scale factors a scaling gesture may leave
ScaleChoices == {<<1, 2>>}
\* angles a rotation gesture may leave
Angles == {90}
\* answers to the filename prompt
Replies ==
    {[cancelled |-> TRUE, text |-> <<>>],
     [cancelled |-> FALSE, text |-> <<" ">>],
     [cancelled |-> FALSE, text |-> <<"a", ".", "P", "N", "G">>]}

\* ------------------------------------------------- the AI generation pipeline

ROBLOX_WIDTH == 585
LOGO_X == 231
LOGO_Y == 74
LOGO_SIZE == 128
PATTERN_SIZE == 150
\* size="1024x1024" of the generated image
AI_SIZE == 1024

\* an RGBA pixel: a colour (a tuple headed by its name) and an alpha
Pixel(colour, alpha) == [c |-> colour, a |-> alpha]
TRANSPARENT == Pixel(<<"black">>, 0)
INK == Pixel(<<"ink">>, 255)
SHADE == Pixel(<<"shade">>, 128)

\* an image: its size and what it shows
Picture(w, h, content) == [size |-> <<w, h>>, content |-> content]
\* None / no image
NoImage == Picture(0, 0, [kind |-> "none"])
\* Image.new("RGBA", (w, h), pixel)
ImageNew(w, h, pixel) == Picture(w, h, [kind |-> "flat", pixel |-> pixel])
\* image.resize((w, h), LANCZOS): the same picture on a w x h grid
Resize(img, w, h) == Picture(w, h, [kind |-> "scaled", of |-> img])
\* base.paste(over, (x, y)) and base.paste(over, (x, y), mask=over)
Paste(base, over, x, y, masked) ==
    Picture(base.size[1], base.size[2],
            [kind |-> "paste", under |-> base, over |-> over,
             at |-> <<x, y>>, masked |-> masked])

\* one pixel drawn over another through the alpha of the upper one
Over(top, bottom) ==
    IF top.a = 255 THEN top
    ELSE IF top.a = 0 THEN bottom
    ELSE Pixel(<<"mix", top.c, bottom.c>>,
               IF bottom.a = 255 THEN 255 ELSE top.a)

RECURSIVE PixelOf(_, _, _)
\* the pixel of img at column x, row y
PixelOf(img, x, y) ==
    LET k == img.content
        w == img.size[1]
        h == img.size[2]
    IN  CASE k.kind = "flat" -> k.pixel
          [] k.kind = "halves" -> IF 2 * x < w THEN k.l ELSE k.r
          \* the shirt template: opaque outlines along the border, a shaded
          \* band under the top outline, transparent elsewhere
          [] k.kind = "frame" ->
                IF \/ 16 * x < w \/ 16 * x >= 15 * w
                   \/ 16 * y < h \/ 16 * y >= 15 * h
                THEN INK
                ELSE IF 16 * y < 2 * h THEN SHADE ELSE TRANSPARENT
          [] k.kind = "scaled" ->
                PixelOf(k.of, (x * k.of.size[1]) \div w,
                              (y * k.of.size[2]) \div h)
          [] k.kind = "paste" ->
                LET u == x - k.at[1]
                    v == y - k.at[2]
                IN  IF /\ u >= 0 /\ u < k.over.size[1]
                       /\ v >= 0 /\ v < k.over.size[2]
                    THEN IF k.masked
                         THEN Over(PixelOf(k.over, u, v), PixelOf(k.under, x, y))
                         ELSE PixelOf(k.over, u, v)
                    ELSE PixelOf(k.under, x, y)
          [] k.kind = "composite" ->
                Over(PixelOf(k.over, x, y), PixelOf(k.under, x, y))
          [] OTHER -> TRANSPARENT

\* Image.alpha_composite(base, overlay); images of different sizes raise
alpha_composite(base, overlay) ==
    Picture(base.size[1], base.size[2],
            [kind |-> "composite", under |-> base, over |-> overlay])

\* pixels at which a 585 x 559 image is observed: corners, the logo box and
\* its surroundings, the shaded band, a tile seam
SheetSamples ==
    {<<0, 0>>, <<100, 50>>, <<231, 74>>, <<294, 137>>, <<358, 201>>,
     <<359, 202>>, <<150, 300>>, <<449, 449>>, <<584, 558>>}

\* the pictures DALL-E may return, converted to RGBA: opaque, 1024 x 1024
AiImages ==
    {Picture(AI_SIZE, AI_SIZE,
             [kind |-> "halves", l |-> Pixel(<<"red">>, 255),
                                 r |-> Pixel(<<"blue">>, 255)]),
     ImageNew(AI_SIZE, AI_SIZE, Pixel(<<"green">>, 255))}

RECURSIVE get_average_color(_)
\* the mean of the RGB channels of the image
get_average_color(image) ==
    LET k == image.content
    IN  CASE k.kind = "flat" -> k.pixel.c
          [] k.kind = "halves" ->
                IF k.l.c = k.r.c THEN k.l.c ELSE <<"avg", k.l.c, k.r.c>>
          [] k.kind = "scaled" -> get_average_color(k.of)
          [] OTHER -> <<"avg">>

create_logo_mode_image(ai_image) ==
    LET logo == Resize(ai_image, LOGO_SIZE, LOGO_SIZE)
        avg_color == get_average_color(logo)
        base == ImageNew(ROBLOX_WIDTH, ROBLOX_HEIGHT, Pixel(avg_color, 255))
    IN  Paste(base, logo, LOGO_X, LOGO_Y, TRUE)

\* range(0, stop, step)
RECURSIVE RangeFrom(_, _, _)
RangeFrom(start, stop, step) ==
    IF start >= stop THEN <<>>
    ELSE <<start>> \o RangeFrom(start + step, stop, step)

RECURSIVE PasteAll(_, _, _)
\* base.paste(tile, pos) for each position in turn
PasteAll(base, tile, positions) ==
    IF positions = <<>> THEN base
    ELSE PasteAll(Paste(base, tile, Head(positions)[1], Head(positions)[2],
                        FALSE),
                  tile, Tail(positions))

create_pattern_mode_image(ai_image) ==
    LET tile == Resize(ai_image, PATTERN_SIZE, PATTERN_SIZE)
        base == ImageNew(ROBLOX_WIDTH, ROBLOX_HEIGHT, TRANSPARENT)
        xs == RangeFrom(0, ROBLOX_WIDTH, PATTERN_SIZE)
        ys == RangeFrom(0, ROBLOX_HEIGHT, PATTERN_SIZE)
        positions == [n \in 1..(Len(xs) * Len(ys)) |->
                        <<xs[((n - 1) \div Len(ys)) + 1],
                          ys[((n - 1) % Len(ys)) + 1]>>]
    IN  PasteAll(base, tile, positions)

\* ---- the template file

\* shirt_overlay.png: absent, an image, or bytes that are no image
FileMissing == [exists |-> FALSE, decodes |-> FALSE, image |-> NoImage]
FileOf(img) == [exists |-> TRUE, decodes |-> TRUE, image |-> img]
FileGarbage == [exists |-> TRUE, decodes |-> FALSE, image |-> NoImage]

\* the template behind TEMPLATE_URL, the same picture at twice the size, and
\* the placeholder written when the download fails
TemplatePng == Picture(ROBLOX_WIDTH, ROBLOX_HEIGHT, [kind |-> "frame"])
TemplateLarge ==
    Picture(2 * ROBLOX_WIDTH, 2 * ROBLOX_HEIGHT, [kind |-> "frame"])
Placeholder == ImageNew(ROBLOX_WIDTH, ROBLOX_HEIGHT, TRANSPARENT)

\* what requests.get(TEMPLATE_URL, timeout=15) may bring: the template, a
\* 200 page that is no image, a 4xx/5xx status, no answer in time
Responses == {"png", "html", "http_error", "timeout"}

\* faulty variant: a failed download leaves no file behind
download_template_noPlaceholder(file, response) ==
    IF file.exists
    THEN [file |-> file, requested |-> FALSE]
    ELSE [file |-> CASE response = "png" -> FileOf(TemplatePng)
                     [] response = "html" -> FileGarbage
                     [] OTHER -> FileMissing,
          requested |-> TRUE]

\* download_template(): the file afterwards and whether a GET was sent
download_template(file, response) ==
    IF file.exists
    THEN [file |-> file, requested |-> FALSE]
    ELSE [file |-> CASE response = "png" -> FileOf(TemplatePng)
                     [] response = "html" -> FileGarbage
                     \* except Exception: save the transparent placeholder
                     [] OTHER -> FileOf(Placeholder),
          requested |-> TRUE]

\* apply_template_overlay(base_image) with the template file as it is
apply_template_overlay(base_image, file) ==
    \* Image.open raises for a missing file and for bytes that are no image
    IF ~(file.exists /\ file.decodes) THEN base_image
    ELSE LET overlay ==
                 IF file.image.size # <<ROBLOX_WIDTH, ROBLOX_HEIGHT>>
                 THEN Resize(file.image, ROBLOX_WIDTH, ROBLOX_HEIGHT)
                 ELSE file.image
         IN  \* alpha_composite raises when the sizes differ
             IF base_image.size # overlay.size THEN base_image
             ELSE alpha_composite(base_image, overlay)

\* ---- main

\* no run of main yet
NoRun ==
    [op |-> "none", had |-> FileMissing, response |-> "none",
     requested |-> FALSE, generated |-> FALSE, base |-> NoImage]

GenerationModes == {"Logo Mode", "Pattern Mode"}

\* one run of main in the Ai Generator mode: download_template(), then, with
\* the Generate button pressed and a prompt given, generate_image (ai_image
\* is NoImage when it failed), the routing on the generation mode and
\* apply_template_overlay
main(file, session, response, pressed, prompt, mode, ai_image) ==
    LET setup == download_template(file, response)
        generated == pressed /\ prompt /\ ai_image # NoImage
        base_image == IF mode = "Logo Mode"
                      THEN create_logo_mode_image(ai_image)
                      ELSE create_pattern_mode_image(ai_image)
        final_image == apply_template_overlay(base_image, setup.file)
    IN  [file |-> setup.file,
         session |-> IF generated THEN final_image ELSE session,
         run |-> [op |-> IF ~pressed THEN "rerun"
                         ELSE IF ~prompt THEN "noPrompt"
                         ELSE IF ai_image = NoImage THEN "generationFailed"
                         ELSE "generated",
                  had |-> file,
                  response |-> IF setup.requested THEN response ELSE "none",
                  requested |-> setup.requested,
                  generated |-> generated,
                  base |-> IF generated THEN base_image ELSE NoImage]]

\* -------------------------------------------------------------------- actions

\* the page after the handler called name, which ends in state S and saves
\* file
Becomes(name, S, file) ==
    /\ steps < MaxSteps
    /\ currentMode' = S.currentMode
    /\ shirtCanvas' = S.shirtCanvas
    /\ pantsCanvas' = S.pantsCanvas
    /\ hiddenCanvas' = S.hiddenCanvas
    /\ modeLabel' = S.modeLabel
    /\ torsoOnlyHidden' = S.torsoOnlyHidden
    /\ legend' = S.legend
    /\ faceCanvases' = S.faceCanvases
    /\ needsUpdate' = S.needsUpdate
    /\ alertMsg' = S.alertMsg
    /\ saved' = file
    /\ steps' = steps + 1
    /\ lastOp' = name
    /\ UNCHANGED pipelineVars

\* the canvases that receive pointer events
Interactive == Modes \ hiddenCanvas

\* the editor page as it is rendered
EditorInit ==
    /\ currentMode = "shirt"
    /\ shirtCanvas = initCanvas
    /\ pantsCanvas = initCanvas
    /\ hiddenCanvas = {"pants"}
    /\ modeLabel = "mode-indicator shirt"
    /\ torsoOnlyHidden = FALSE
    /\ legend = <<"Torso", "Right Arm", "Left Arm">>
    /\ faceCanvases = CreateFaceCanvases
    /\ needsUpdate = [pf \in MappedFaces |-> TRUE]
    /\ templateFetch = [m \in Modes |-> "pending"]
    /\ warmupPending = TRUE
    /\ uploads = <<>>
    /\ nextId = 1
    /\ chosenIn = [id \in {} |-> "shirt"]
    /\ steps = 0
    /\ alertMsg = "none"
    /\ saved = NO_FILE
    /\ lastOp = "init"

\* the page in the Manual Editor mode: main has run download_template before
\* it renders the editor, which never reads the file or the session image
Init ==
    /\ EditorInit
    /\ templateFile = FileOf(TemplatePng)
    /\ finalImage = NoImage
    /\ runs = 0
    /\ lastRun = NoRun

\* the template image of canvas m arrives: setBackgroundImage + renderAll
TemplateLoaded(m) ==
    /\ templateFetch[m] = "pending"
    /\ templateFetch' = [templateFetch EXCEPT ![m] = "loaded"]
    /\ Becomes("templateLoaded",
               SetCanvas(St, m, [CanvasOf(St, m) EXCEPT !.bgLoaded = TRUE]),
               NO_FILE)
    /\ UNCHANGED <<warmupPending, uploads, nextId, chosenIn>>

\* the template fetch of canvas m fails: the canvas keeps its vector guides
TemplateFailed(m) ==
    /\ templateFetch[m] = "pending"
    /\ templateFetch' = [templateFetch EXCEPT ![m] = "failed"]
    /\ Becomes("templateFailed", St, NO_FILE)
    /\ UNCHANGED <<warmupPending, uploads, nextId, chosenIn>>

\* setTimeout(updateAllTextures, 1000) fires
WarmupSync ==
    /\ warmupPending
    /\ warmupPending' = FALSE
    /\ Becomes("warmup", updateAllTextures(St), NO_FILE)
    /\ UNCHANGED <<templateFetch, uploads, nextId, chosenIn>>

\* the change event of #img-upload with a file: reader.readAsDataURL(file)
ChooseFile ==
    /\ nextId <= MaxLayers
    /\ Len(uploads) < MaxPending
    /\ uploads' = Append(uploads, nextId)
    /\ chosenIn' = (nextId :> currentMode) @@ chosenIn
    /\ nextId' = nextId + 1
    /\ Becomes("chooseFile", St, NO_FILE)
    /\ UNCHANGED <<templateFetch, warmupPending>>

\* the change event of #img-upload without a file
ChooseNoFile ==
    /\ Becomes("chooseNoFile", St, NO_FILE)
    /\ UNCHANGED <<templateFetch, warmupPending, uploads, nextId, chosenIn>>

RemoveAt(seq, i) == SubSeq(seq, 1, i - 1) \o SubSeq(seq, i + 1, Len(seq))

\* reader.onload, then the fabric.Image.fromURL callback with the decoded
\* image of natural size w x h
ImageLoaded(i, w, h) ==
    /\ i \in DOMAIN uploads
    /\ uploads' = RemoveAt(uploads, i)
    /\ Becomes("imageLoaded", imageLoaded(St, uploads[i], w, h), NO_FILE)
    /\ UNCHANGED <<templateFetch, warmupPending, nextId, chosenIn>>

\* the uploaded file does not decode: fabric.Image.fromURL calls back with an
\* image that has no element (width 0, height 0) and the error flag, which
\* the callback does not read; scaleToWidth leaves a scale that is no finite
\* number, written <<128, 0>>
DecodeFailed(i) ==
    /\ i \in DOMAIN uploads
    /\ uploads' = RemoveAt(uploads, i)
    /\ Becomes("decodeFailed", imageLoaded(St, uploads[i], 0, 0), NO_FILE)
    /\ UNCHANGED <<templateFetch, warmupPending, nextId, chosenIn>>

\* the change event of an editMode radio (or any call of switchMode)
SwitchMode(newMode) ==
    /\ Becomes("switchMode", switchMode(St, newMode), NO_FILE)
    /\ UNCHANGED <<templateFetch, warmupPending, uploads, nextId, chosenIn>>

\* the layers the pointer can hit: an image without element has no area
Pickable(c) ==
    {c.objects[i].id : i \in {j \in 1..Len(c.objects) :
        ~c.objects[j].isGuide /\ c.objects[j].width > 0
                              /\ c.objects[j].height > 0}}

\* a click on a layer of the interactive canvas selects it
SelectLayer(m, id) ==
    /\ m \in Interactive
    /\ id \in Pickable(CanvasOf(St, m))
    /\ Becomes("select",
               SetCanvas(St, m, setActiveObject(CanvasOf(St, m), id)), NO_FILE)
    /\ UNCHANGED <<templateFetch, warmupPending, uploads, nextId, chosenIn>>

\* a click on the empty part of the interactive canvas clears the selection
ClearSelection(m) ==
    /\ m \in Interactive
    /\ CanvasOf(St, m).active # None
    /\ Becomes("deselect",
               SetCanvas(St, m, discardActiveObject(CanvasOf(St, m))), NO_FILE)
    /\ UNCHANGED <<templateFetch, warmupPending, uploads, nextId, chosenIn>>

ObjectMoving(m, id, pos) ==
    /\ m \in Interactive
    /\ id \in Pickable(CanvasOf(St, m))
    /\ Becomes("moving", objectMoving(St, m, id, pos), NO_FILE)
    /\ UNCHANGED <<templateFetch, warmupPending, uploads, nextId, chosenIn>>

ObjectScaling(m, scale) ==
    /\ m \in Interactive
    /\ CanvasOf(St, m).active \in Pickable(CanvasOf(St, m))
    /\ Becomes("scaling", objectScaling(St, m, scale), NO_FILE)
    /\ UNCHANGED <<templateFetch, warmupPending, uploads, nextId, chosenIn>>

ObjectRotating(m, angle) ==
    /\ m \in Interactive
    /\ CanvasOf(St, m).active \in Pickable(CanvasOf(St, m))
    /\ Becomes("rotating", objectRotating(St, m, angle), NO_FILE)
    /\ UNCHANGED <<templateFetch, warmupPending, uploads, nextId, chosenIn>>

\* the pointer-up that ends a move, scale or rotate of the selected layer
ObjectModified(m) ==
    /\ m \in Interactive
    /\ CanvasOf(St, m).active \in Pickable(CanvasOf(St, m))
    /\ Becomes("modified", objectModified(St), NO_FILE)
    /\ UNCHANGED <<templateFetch, warmupPending, uploads, nextId, chosenIn>>

\* a pointer click on a fit button: the torso-only buttons take no pointer
\* events while they have class hidden
ClickFit(zoneName) ==
    /\ zoneName \in {"front", "back"} => ~torsoOnlyHidden
    /\ Becomes("fitToZone", fitToZone(St, zoneName), NO_FILE)
    /\ UNCHANGED <<templateFetch, warmupPending, uploads, nextId, chosenIn>>

\* a torso-only button activated from the keyboard while it has class
\* hidden (pointer-events: none does not take it out of the tab order)
KeyFit(zoneName) ==
    /\ zoneName \in {"front", "back"}
    /\ torsoOnlyHidden
    /\ Becomes("fitToZone", fitToZone(St, zoneName), NO_FILE)
    /\ UNCHANGED <<templateFetch, warmupPending, uploads, nextId, chosenIn>>

\* a call of window.fitToZone with a name that is no fit zone
FitUnknown ==
    /\ Becomes("fitUnknown", fitToZone(St, "other"), NO_FILE)
    /\ UNCHANGED <<templateFetch, warmupPending, uploads, nextId, chosenIn>>

DeleteSelected ==
    /\ Becomes("deleteSelected", deleteSelected(St), NO_FILE)
    /\ UNCHANGED <<templateFetch, warmupPending, uploads, nextId, chosenIn>>

DownloadTexture(type, reply) ==
    /\ LET r == downloadTexture(St, type, reply) IN
       Becomes("downloadTexture", r.state, r.file)
    /\ UNCHANGED <<templateFetch, warmupPending, uploads, nextId, chosenIn>>

\* one frame of the render loop: the renderer uploads the marked textures
Animate ==
    /\ Becomes("animate",
               [St EXCEPT !.needsUpdate = [pf \in DOMAIN @ |-> FALSE]],
               NO_FILE)
    /\ UNCHANGED <<templateFetch, warmupPending, uploads, nextId, chosenIn>>

Next ==
    \/ \E m \in Modes : TemplateLoaded(m)
    \/ \E m \in Modes : TemplateFailed(m)
    \/ WarmupSync
    \/ ChooseFile
    \/ ChooseNoFile
    \/ \E i \in 1..MaxPending, sz \in ImageSizes : ImageLoaded(i, sz[1], sz[2])
    \/ \E i \in 1..MaxPending : DecodeFailed(i)
    \/ \E m \in Modes : SwitchMode(m)
    \/ \E m \in Modes, id \in 1..MaxLayers : SelectLayer(m, id)
    \/ \E m \in Modes : ClearSelection(m)
    \/ \E m \in Modes, id \in 1..MaxLayers, pos \in MovePositions :
          ObjectMoving(m, id, pos)
    \/ \E m \in Modes, s \in ScaleChoices : ObjectScaling(m, s)
    \/ \E m \in Modes, a \in Angles : ObjectRotating(m, a)
    \/ \E m \in Modes : ObjectModified(m)
    \/ \E z \in ZoneNames : ClickFit(z)
    \/ \E z \in ZoneNames : KeyFit(z)
    \/ FitUnknown
    \/ DeleteSelected
    \/ \E t \in Modes, r \in Replies : DownloadTexture(t, r)
    \/ Animate

Spec == Init /\ [][Next]_vars

\* ------------------------------------------------------------ group selection

\* what getActiveObject returns while several layers are selected together:
\* a fabric.ActiveSelection, which is no object of the canvas
GROUP == 0 - 1

\* new fabric.Canvas(id, { backgroundColor, preserveObjectStacking }) leaves
\* the canvas's selection option at its default, so a drag box around (or a
\* shift-click on) two or more layers selects them together; guides are not
\* selectable and stay out.  Only selection events fire: nothing is synced.
\* What a later discard, fit or delete does to the members of the group is
\* not modelled: a behaviour is followed up to the group selection.
GroupSelect(m) ==
    /\ steps < MaxSteps
    /\ m \in Interactive
    /\ Cardinality(Pickable(CanvasOf(St, m))) >= 2
    /\ shirtCanvas' = IF m = "shirt" THEN setActiveObject(shirtCanvas, GROUP)
                      ELSE shirtCanvas
    /\ pantsCanvas' = IF m = "pants" THEN setActiveObject(pantsCanvas, GROUP)
                      ELSE pantsCanvas
    /\ alertMsg' = "none"
    /\ saved' = NO_FILE
    /\ steps' = MaxSteps
    /\ lastOp' = "groupSelect"
    /\ UNCHANGED <<currentMode, hiddenCanvas, modeLabel, torsoOnlyHidden,
                   legend, faceCanvases, needsUpdate, templateFetch,
                   warmupPending, uploads, nextId, chosenIn, pipelineVars>>

NextWithGroups ==
    \/ Next
    \/ \E m \in Modes : GroupSelect(m)

\* the editor with the pointer gestures that select several layers at once
SelectionSpec == Init /\ [][NextWithGroups]_vars

\* ------------------------------------------------------- pipeline actions

\* what may lie at shirt_overlay.png when the app starts: nothing, the
\* template, a larger copy of it, a file that is no image, the placeholder of
\* an earlier start
InitialFiles ==
    {FileMissing, FileOf(TemplatePng), FileOf(TemplateLarge), FileGarbage,
     FileOf(Placeholder)}

\* the page in the Ai Generator mode before the first run of main
PipelineInit ==
    /\ EditorInit
    /\ templateFile \in InitialFiles
    /\ finalImage = NoImage
    /\ runs = 0
    /\ lastRun = NoRun

\* Streamlit runs main from the top on every interaction
RunMain(response, pressed, prompt, mode, ai_image) ==
    /\ runs < MaxRuns
    /\ LET r == main(templateFile, finalImage, response, pressed, prompt,
                     mode, ai_image)
       IN  /\ templateFile' = r.file
           /\ finalImage' = r.session
           /\ lastRun' = r.run
    /\ runs' = runs + 1
    /\ UNCHANGED editorVars

\* an interaction other than the Generate button
Rerun(response) == RunMain(response, FALSE, FALSE, "Logo Mode", NoImage)

\* Generate pressed with an empty prompt: a warning, then return
GenerateNoPrompt(response) ==
    RunMain(response, TRUE, FALSE, "Logo Mode", NoImage)

\* Generate pressed with a prompt; ai_image is NoImage when generate_image
\* returned None
Generate(response, mode, ai_image) ==
    RunMain(response, TRUE, TRUE, mode, ai_image)

PipelineNext ==
    \/ \E r \in Responses : Rerun(r)
    \/ \E r \in Responses : GenerateNoPrompt(r)
    \/ \E r \in Responses, mode \in GenerationModes,
          ai \in AiImages \cup {NoImage} : Generate(r, mode, ai)

\* the Ai Generator side of the app
PipelineSpec == PipelineInit /\ [][PipelineNext]_vars

\* ============================================================== properties

\* the canvas without its guide objects and selection: what the guide-hidden
\* raster of the canvas shows
GuideHidden(c) == [objects |-> Layers(c), bgLoaded |-> c.bgLoaded]

\* every mapped face canvas fc[pf] is the resample of the face's region of
\* the guide-hidden raster of the part's source canvas (sc shirt, pc pants)
TexturesFresh(fc, sc, pc) ==
    \A pf \in MappedFaces :
        LET part == BODY_PARTS[pf[1]]
            source == IF part.textureSource = "shirt" THEN sc ELSE pc
        IN  fc[pf] = DrawRegion(GuideHidden(source), part.faces[pf[2]])

\* the handler that ran last was a mutation that ran to completion
MutationDone ==
    \/ lastOp \in {"imageLoaded", "decodeFailed", "moving", "scaling",
                   "rotating", "modified"}
    \/ lastOp \in {"fitToZone", "deleteSelected"} /\ alertMsg = "none"

\* the handler that ran last was a fit or delete that raised an alert
Rejected ==
    lastOp \in {"fitToZone", "fitUnknown", "deleteSelected"}
        /\ alertMsg # "none"

AllLayers == Layers(shirtCanvas) \o Layers(pantsCanvas)

\* a texture shows a pixel of a user layer
LayerOnTexture ==
    \E pf \in MappedFaces, uv \in TexSamples : faceCanvases[pf][uv][1] = "layer"

\* C1: after every completed mutation (upload, move, scale, rotate, modified,
\* successful fit, successful delete) every mapped face texture equals the
\* resample of its region of the guide-hidden raster of its source canvas
C1_MutationEndsSynced ==
    MutationDone => TexturesFresh(faceCanvases, shirtCanvas, pantsCanvas)

\* a drag has just moved a layer and the layer shows on a texture
C1_Witness == lastOp = "moving" /\ LayerOnTexture

\* C2 (as stated): with no user layer on either canvas every mapped face
\* texture has its initial fill, white for shirt parts and denim for pants
\* parts
C2_NeutralFillWithoutLayers ==
    AllLayers = <<>> =>
        \A pf \in MappedFaces : faceCanvases[pf] = Fill(DefaultFill(pf[1]))

C4_SwitchKeepsLayers ==
    [][lastOp' = "switchMode" =>
          /\ Layers(shirtCanvas') = Layers(shirtCanvas)
          /\ Layers(pantsCanvas') = Layers(pantsCanvas)]_vars

\* the editor was switched to pants while the shirt canvas holds a layer
C4_Witness ==
    /\ lastOp = "switchMode"
    /\ currentMode = "pants"
    /\ Layers(shirtCanvas) # <<>>

\* C5: exactly the canvas named by currentMode is visible and interactive,
\* and switchMode to the current mode changes nothing
C5_OneCanvasShown ==
    /\ hiddenCanvas = Modes \ {currentMode}
    /\ Interactive = {currentMode}
    /\ switchMode(St, currentMode) = St

\* the editor was switched to pants and shows the pants canvas only
C5_Witness ==
    /\ lastOp = "switchMode"
    /\ currentMode = "pants"
    /\ hiddenCanvas = {"shirt"}

\* C6: the 30 mapped (part, face) pairs own the face textures in every step,
\* and a switchMode, a downloadTexture, a rejected fit or delete and a frame
\* of the render loop leave every face texture as it was and run no sync
C6_TexturesChangeOnlyInSync ==
    [][/\ DOMAIN faceCanvases' = DOMAIN faceCanvases
       /\ DOMAIN faceCanvases' = MappedFaces
       /\ Cardinality(MappedFaces) = 30
       /\ (lastOp' \in {"switchMode", "downloadTexture", "animate"} \/ Rejected')
             => faceCanvases' = faceCanvases
       /\ (lastOp' \in {"switchMode", "downloadTexture"} \/ Rejected')
             => needsUpdate' = needsUpdate]_vars

\* a switch or download has run while the textures were out of date, so that
\* a sync would have changed them
C6_Witness ==
    /\ lastOp \in {"switchMode", "downloadTexture"}
    /\ ~TexturesFresh(faceCanvases, shirtCanvas, pantsCanvas)
    /\ ~warmupPending

\* C7: a fitToZone step taken while the active canvas has no selection raises
\* 'Select an image first!' and leaves both canvases (layers, order,
\* transforms, selections), the mode and every face texture as they were,
\* without a sync
C7_FitWithoutSelection ==
    [][(/\ lastOp' \in {"fitToZone", "fitUnknown"}
        /\ getActiveObject(getActiveCanvas(St)) = None)
          => /\ alertMsg' = "Select an image first!"
             /\ UNCHANGED <<currentMode, shirtCanvas, pantsCanvas,
                            hiddenCanvas, faceCanvases, needsUpdate>>]_vars

\* a fit was rejected while the active canvas holds an unselected layer
C7_Witness ==
    /\ lastOp = "fitToZone"
    /\ alertMsg = "Select an image first!"
    /\ Layers(getActiveCanvas(St)) # <<>>

\* the selected layer of the active canvas after fitToZone(zoneName) sits at
\* the zone's corner with scaleX = zone.w / width and scaleY = zone.h / height
\* taken independently, and width * scaleX, height * scaleY are within
\* maxUlps units in the last place below zone.w, zone.h
FitsZone(zoneName, maxUlps) ==
    LET canvas == getActiveCanvas(St)
        activeObj == getActiveObject(canvas)
        Z == FIT_ZONES[zoneName]
        L == ObjectOf(getActiveCanvas(fitToZone(St, zoneName)), activeObj)
    IN  /\ L.left = Z.x
        /\ L.top = Z.y
        /\ L.scaleX = <<Z.w, L.width>>
        /\ L.scaleY = <<Z.h, L.height>>
        /\ FlMulBackUlps(Z.w, L.width) <= maxUlps
        /\ FlMulBackUlps(Z.h, L.height) <= maxUlps

\* the selected layer of the active canvas is as the upload added it
FreshLayerSelected ==
    LET canvas == getActiveCanvas(St)
        activeObj == getActiveObject(canvas)
    IN  /\ activeObj # None
        /\ LET L == ObjectOf(canvas, activeObj)
           IN  L.width > 0 /\ L.height > 0 /\
               L = [NewImage(L.id, L.width, L.height) EXCEPT
                       !.left = 128, !.top = 128,
                       !.scaleX = <<128, L.width>>,
                       !.scaleY = <<128, L.width>>]

\* C8 (as stated): fitting a freshly added layer to any zone gives
\* left = Z.x, top = Z.y, width * scaleX = Z.w and height * scaleY = Z.h
\* exactly
C8_FitExact ==
    FreshLayerSelected => \A z \in ZoneNames : FitsZone(z, 0)

\* C8 (amended): fitting the selected layer, of positive natural width and
\* height, to any zone gives left = Z.x, top = Z.y, scaleX the double nearest Z.w / width and scaleY the double
\* nearest Z.h / height, so that width * scaleX and height * scaleY are Z.w
\* and Z.h or one unit in the last place below
C8_FitWithinOneUlp ==
    getActiveObject(getActiveCanvas(St)) \in Pickable(getActiveCanvas(St)) =>
        \A z \in ZoneNames : FitsZone(z, 1)

\* a layer of natural width 98 was fitted to the right-arm zone
C8_Witness ==
    /\ lastOp = "fitToZone"
    /\ alertMsg = "none"
    /\ \E i \in DOMAIN Layers(shirtCanvas) :
          LET L == Layers(shirtCanvas)[i]
          IN  /\ L.width = 98
              /\ L.left = FIT_ZONES["r_arm"].x
              /\ L.scaleX = <<FIT_ZONES["r_arm"].w, 98>>

\* C9: a deleteSelected step taken while the active canvas has no selection
\* raises an alert and leaves both canvases (layers, order, transforms,
\* selections), the mode and every face texture as they were, without a sync
C9_DeleteWithoutSelection ==
    [][(/\ lastOp' = "deleteSelected"
        /\ getActiveObject(getActiveCanvas(St)) = None)
          => /\ alertMsg' = "Select an image to delete!"
             /\ UNCHANGED <<currentMode, shirtCanvas, pantsCanvas,
                            hiddenCanvas, faceCanvases, needsUpdate>>]_vars

\* a delete was rejected with no layer on either canvas and textures that a
\* sync would have changed
C9_Witness ==
    /\ lastOp = "deleteSelected"
    /\ alertMsg = "Select an image to delete!"
    /\ AllLayers = <<>>
    /\ ~TexturesFresh(faceCanvases, shirtCanvas, pantsCanvas)

Guides(c) == SelectSeq(c.objects, LAMBDA o : o.isGuide)

\* C11: each canvas holds its 8 guide objects (a label and a dashed rectangle
\* per drop zone) in every reachable state, no guide is ever the selection,
\* and deleteSelected with a guide as the selection of the active canvas
\* raises 'Cannot delete guide elements!' and removes nothing
C11_GuidesKept ==
    /\ \A m \in Modes :
          LET c == CanvasOf(St, m)
          IN  /\ Len(Guides(c)) = 8
              /\ GuideIds(c) = GuideIds(initCanvas)
              /\ \A i \in 1..Len(DROP_ZONES) :
                    /\ ObjectOf(c, GuideText(i).id).kind = "text"
                    /\ ObjectOf(c, GuideRect(i).id).kind = "rect"
              /\ getActiveObject(c) \notin GuideIds(c)
    /\ \A g \in GuideIds(getActiveCanvas(St)) :
          LET S == SetCanvas(St, currentMode,
                             setActiveObject(getActiveCanvas(St), g))
          IN  deleteSelected(S) =
                  [S EXCEPT !.alertMsg = "Cannot delete guide elements!"]

\* a layer was deleted from a canvas that holds a second layer and the guides
C11_Witness ==
    /\ lastOp = "deleteSelected"
    /\ alertMsg = "none"
    /\ Len(getActiveCanvas(St).objects) = 9

\* the canvas background at a pixel: the template overlay when loaded, over
\* the white background colour
BackgroundAt(c, px, py) ==
    PixelAt([objects |-> <<>>, bgLoaded |-> c.bgLoaded], px, py)

\* C12: when getCleanCanvasElement takes its element, every guide of the
\* canvas is invisible and nothing is selected; the element, every face
\* texture and every saved PNG are free of guide pixels, and a canvas with no
\* layer rasterizes to the pure background
C12_SnapshotHidesGuides ==
    /\ \A m \in Modes :
          LET c == CanvasOf(St, m)
              r == getCleanCanvasElement(c)
          IN  /\ \A i \in DOMAIN r.snapshot.objects :
                    r.snapshot.objects[i].isGuide
                        => ~r.snapshot.objects[i].visible
              /\ getActiveObject(r.snapshot) = None
              /\ r.el = toCanvasElement(r.snapshot)
              /\ \A p \in ExportSamples :
                    /\ PixelAt(r.el, p[1], p[2]) # GUIDE
                    /\ Layers(c) = <<>> =>
                          PixelAt(r.el, p[1], p[2]) = BackgroundAt(c, p[1], p[2])
    /\ \A pf \in MappedFaces, uv \in TexSamples : faceCanvases[pf][uv] # GUIDE
    /\ saved.saved => \A p \in ExportSamples : saved.image[p] # GUIDE

\* a PNG was saved without the guide label that the canvas shows, while a
\* layer is selected
C12_Witness ==
    /\ lastOp = "downloadTexture"
    /\ saved.saved
    /\ saved.image[<<192, 116>>] # GUIDE
    /\ \A m \in Modes :
          PixelAt(toCanvasElement(CanvasOf(St, m)), 192, 116) = GUIDE
    /\ \E m \in Modes : getActiveObject(CanvasOf(St, m)) # None

C15_HeadUsesSkin ==
    /\ \A f \in Faces :
          /\ <<"head", f>> \notin DOMAIN faceCanvases
          /\ <<"head", f>> \notin DOMAIN needsUpdate
          /\ <<"head", f>> \notin DOMAIN updateAllTextures(St).faceCanvases
          /\ Materials[<<"head", f>>] = "skinMaterial"
    /\ \A pf \in PartNames \X Faces :
          BODY_PARTS[pf[1]].textureSource = "none" =>
              /\ ~Synced(pf)
              /\ pf \notin MappedFaces
              /\ Materials[pf] = "skinMaterial"

\* a rotation has just been synced onto the textures
C15_Witness == lastOp = "rotating" /\ LayerOnTexture

\* the canvas that is not the active one
InactiveCanvas == IF currentMode = "shirt" THEN pantsCanvas ELSE shirtCanvas

HiddenRaster(c) ==
    [p \in ExportSamples |-> PixelAt(GuideHidden(c), p[1], p[2])]

\* C17 (as stated): the PNG a download saves is the guide-hidden raster of
\* the canvas of the active mode
C17_DownloadFromActive ==
    (lastOp = "downloadTexture" /\ saved.saved)
        => saved.image = HiddenRaster(getActiveCanvas(St))

\* C17 (amended): the PNG that downloadTexture(type) saves is the
\* guide-hidden raster of the canvas named by type, the shirt canvas for the
\* shirt button and the pants canvas for the pants button, whatever the
\* active mode
C17_DownloadByType ==
    \A type \in Modes, reply \in Replies :
        LET file == downloadTexture(St, type, reply).file
        IN  /\ file.saved = ~reply.cancelled
            /\ file.saved => file.image = HiddenRaster(CanvasOf(St, type))

\* in shirt mode the pants button saved a PNG under the pants default name
\* that is not the raster of the shirt canvas
C17_Witness ==
    /\ lastOp = "downloadTexture"
    /\ saved.saved
    /\ currentMode = "shirt"
    /\ saved.name = <<"roblox_pants_design">> \o PNG
    /\ saved.image = HiddenRaster(pantsCanvas)
    /\ saved.image # HiddenRaster(shirtCanvas)

\* texts typed into the filename prompt, each with the name the shirt button
\* saves for it
FilenameCases ==
    {[text |-> <<>>, name |-> <<"roblox_shirt_design">> \o PNG],
     [text |-> <<" ", " ">>, name |-> <<"roblox_shirt_design">> \o PNG],
     [text |-> <<"a">>, name |-> <<"a">> \o PNG],
     [text |-> <<" ", "a", " ">>, name |-> <<"a">> \o PNG],
     [text |-> <<"a", " ", "b">>, name |-> <<"a", " ", "b">> \o PNG],
     [text |-> <<"a">> \o PNG, name |-> <<"a">> \o PNG],
     [text |-> <<"a">> \o PNG \o <<" ">>, name |-> <<"a">> \o PNG],
     [text |-> <<"a", ".", "P", "N", "G">>, name |-> <<"a", ".", "P", "N", "G">>],
     [text |-> <<"a", ".", "P", "n", "g">>, name |-> <<"a", ".", "P", "n", "g">>],
     [text |-> PNG, name |-> PNG],
     [text |-> <<"p", "n", "g">>, name |-> <<"p", "n", "g">> \o PNG],
     [text |-> <<"a", ".", "p", "n">>, name |-> <<"a", ".", "p", "n">> \o PNG],
     [text |-> PNG \o <<"a">>, name |-> PNG \o <<"a">> \o PNG]}

\* the name ends in '.png' in some mix of upper and lower case
EndsInPng(name) ==
    /\ Len(name) >= 4
    /\ name[Len(name) - 3] = "."
    /\ name[Len(name) - 2] \in {"p", "P"}
    /\ name[Len(name) - 1] \in {"n", "N"}
    /\ name[Len(name)] \in {"g", "G"}

\* C18: a cancelled prompt saves no file; any other answer saves one file
\* whose name ends in '.png' (in any case), is the default name plus '.png'
\* when the trimmed answer is empty, is the trimmed answer when that already
\* ends in '.png', and is the trimmed answer plus '.png' otherwise
C18_FilenameResolution ==
    /\ \A type \in Modes :
          /\ downloadTexture(St, type, [cancelled |-> TRUE, text |-> <<>>]).file
                 = NO_FILE
          /\ \A case \in FilenameCases :
                LET file == downloadTexture(St, type,
                                [cancelled |-> FALSE, text |-> case.text]).file
                    expected == IF case.name[1] = "roblox_shirt_design"
                                    /\ type = "pants"
                                THEN <<"roblox_pants_design">> \o PNG
                                ELSE case.name
                IN  /\ file.saved
                    /\ file.name = expected
                    /\ EndsInPng(file.name)
                    /\ ~EndsInPng(SubSeq(file.name, 1, Len(file.name) - 4))
    /\ (lastOp = "downloadTexture" /\ saved.saved) => EndsInPng(saved.name)
    /\ (lastOp # "downloadTexture") => saved = NO_FILE

\* a PNG was saved under a typed name that ends in '.PNG', with no second
\* suffix
C18_Witness ==
    /\ lastOp = "downloadTexture"
    /\ saved.saved
    /\ saved.name = <<"a", ".", "P", "N", "G">>

\* C19 (as stated): once both template fetches have completed and the
\* warm-up sync has run, in whatever order, and no file was ever chosen,
\* every mapped face texture equals the resample of its region of the
\* guide-hidden raster, template overlay included
C19_WarmupCapturesTemplate ==
    (/\ ~warmupPending
     /\ \A m \in Modes : templateFetch[m] # "pending"
     /\ nextId = 1
     /\ AllLayers = <<>>)
        => TexturesFresh(faceCanvases, shirtCanvas, pantsCanvas)

\* C20 (as stated): when the uploaded file fails to decode, no layer is
\* created on either canvas and the objects, their order and the selections
\* are as before
C20_DecodeFailureAddsNothing ==
    [][lastOp' = "decodeFailed" =>
          /\ shirtCanvas' = shirtCanvas
          /\ pantsCanvas' = pantsCanvas]_vars

\* C21 (as stated): while the pants mode is active, a fit step that changes
\* a layer of the pants canvas is the r_arm or the l_arm fit, never the
\* front or the back torso fit
C21_TorsoFitsShirtOnly ==
    [][(/\ lastOp' = "fitToZone"
        /\ currentMode = "pants"
        /\ Layers(pantsCanvas') # Layers(pantsCanvas))
          => LET L == ObjectOf(pantsCanvas', getActiveObject(pantsCanvas'))
             IN  <<L.left, L.top>> \in
                     {<<FIT_ZONES[z].x, FIT_ZONES[z].y>> : z \in {"r_arm", "l_arm"}}]_vars

\* the parts that take their textures from a canvas
TexturedParts == {"torso", "rightArm", "leftArm", "rightLeg", "leftLeg"}

\* C22: one updateAllTextures from any reachable state rewrites each of the
\* 30 mapped faces (6 per textured part) with the resample of its region of
\* the guide-hidden raster of its own source canvas, over a white fill that
\* leaves no default colour behind, and marks each of them for upload
C22_FullSync ==
    LET after == updateAllTextures(St)
    IN  /\ MappedFaces = TexturedParts \X Faces
        /\ Cardinality(MappedFaces) = 30
        /\ after.syncRuns = 1
        /\ \A pf \in MappedFaces :
              /\ after.needsUpdate[pf]
              /\ \A uv \in TexSamples : after.faceCanvases[pf][uv] # DENIM
        /\ TexturesFresh(after.faceCanvases, shirtCanvas, pantsCanvas)

\* a layer fitted to the pants canvas shows on the right leg and not on the
\* right arm, which has the same region of the shirt canvas
C22_Witness ==
    /\ lastOp = "fitToZone"
    /\ currentMode = "pants"
    /\ faceCanvases[<<"rightLeg", "front">>][<<64, 64>>][1] = "layer"
    /\ faceCanvases[<<"rightArm", "front">>][<<64, 64>>][1] # "layer"

\* the front faces whose region a fit zone is meant to cover
ZoneFaces ==
    [front |-> {"torso"}, back |-> {"torso"},
     r_arm |-> {"rightArm", "rightLeg"}, l_arm |-> {"leftArm", "leftLeg"}]

ZoneFace(zoneName) == IF zoneName = "back" THEN "back" ELSE "front"

\* C23: each fit zone is the region of the faces it is named after (front and
\* back of the torso, front of the right arm and leg, front of the left arm
\* and leg), and fitting a selected unrotated layer of positive size to a
\* zone makes the texture of each such face of the active canvas's parts the
\* resample of that zone of the guide-hidden raster, every pixel of which is
\* the fitted layer
C23_FitCoversFace ==
    /\ \A z \in ZoneNames : \A p \in ZoneFaces[z] :
          BODY_PARTS[p].faces[ZoneFace(z)] = FIT_ZONES[z]
    /\ \A z \in ZoneNames :
          LET canvas == getActiveCanvas(St)
              activeObj == getActiveObject(canvas)
              after == fitToZone(St, z)
          IN  (/\ activeObj \in Pickable(canvas)
               /\ ObjectOf(canvas, activeObj).angle = 0)
              => \A p \in ZoneFaces[z] :
                    BODY_PARTS[p].textureSource = currentMode
                    => /\ after.faceCanvases[<<p, ZoneFace(z)>>]
                            = DrawRegion(GuideHidden(getActiveCanvas(after)),
                                         FIT_ZONES[z])
                       /\ after.faceCanvases[<<p, ZoneFace(z)>>]
                            = Fill(LayerColour(activeObj))

\* one 98 x 64 layer on the shirt canvas has been fitted to the front zone and
\* fills the torso's front texture
C23_Witness ==
    /\ lastOp = "fitToZone"
    /\ currentMode = "shirt"
    /\ Len(Layers(shirtCanvas)) = 1
    /\ LET L == Layers(shirtCanvas)[1]
       IN  /\ L.width = 98
           /\ <<L.left, L.top>> = <<128, 128>>
           /\ L.scaleY = <<128, 64>>
           /\ faceCanvases[<<"torso", "front">>] = Fill(LayerColour(L.id))

C25_OneLayerSelected ==
    \A m \in Modes :
        LET c == CanvasOf(St, m)
        IN  getActiveObject(c) # None
            => /\ getActiveObject(c) \in LayerIds(c)
               /\ \A n \in Modes \ {m} :
                     getActiveObject(c) \notin LayerIds(CanvasOf(St, n))

C27_SwitchKeepsSelection ==
    \A m \in Modes \ {currentMode} :
        LET away == switchMode(St, m)
            back == switchMode(away, currentMode)
        IN  /\ away.currentMode = m
            /\ back.currentMode = currentMode
            /\ \A n \in Modes :
                  /\ getActiveObject(CanvasOf(away, n))
                        = getActiveObject(CanvasOf(St, n))
                  /\ CanvasOf(away, n) = CanvasOf(St, n)
                  /\ CanvasOf(back, n) = CanvasOf(St, n)
            /\ deleteSelected(back) = deleteSelected(St)
            /\ \A z \in {"front", "r_arm"} :
                  fitToZone(back, z) = fitToZone(St, z)

\* the editor has just been switched to pants mode while a layer was selected
\* on the shirt canvas, and that layer is still the shirt canvas's selection
C27_Witness ==
    /\ lastOp = "switchMode"
    /\ currentMode = "pants"
    /\ getActiveObject(shirtCanvas) \in LayerIds(shirtCanvas)

\* C28: on each canvas the bottom 8 objects are the guides in their creation
\* order (label and box of each drop zone) and every object above them is a
\* user layer, so no guide lies above a layer
C28_GuidesBelowLayers ==
    \A m \in Modes :
        LET c == CanvasOf(St, m)
            n == Len(GuideObjects)
        IN  /\ n = 8
            /\ Len(c.objects) >= n
            /\ SubSeq(c.objects, 1, n) = GuideObjects
            /\ \A i \in (n + 1)..Len(c.objects) : ~c.objects[i].isGuide
            /\ \A i, j \in 1..Len(c.objects) :
                  (c.objects[i].isGuide /\ ~c.objects[j].isGuide) => i < j

\* a fit has just brought a layer to the front of a canvas that holds two
\* layers above its guides
C28_Witness ==
    /\ lastOp = "fitToZone"
    /\ alertMsg = "none"
    /\ Len(Layers(getActiveCanvas(St))) = 2
    /\ Len(getActiveCanvas(St).objects) = Len(GuideObjects) + 2

\* C29: each body part has one texture source out of shirt, pants and none
\* and a region entry for each of the six faces; the part without source (the
\* head alone) has no region on any face, and each part with a source has six
\* regions of positive size that lie inside the 585 x 600 sheet, each with a
\* face canvas in the rig
C29_BodyPartsWellFormed ==
    /\ PartNames = TexturedParts \cup {"head"}
    /\ \A p \in PartNames :
          LET part == BODY_PARTS[p] IN
          /\ part.textureSource \in {"shirt", "pants", "none"}
          /\ DOMAIN part.faces = Faces
          /\ part.textureSource = "none" <=> p = "head"
          /\ part.textureSource = "none"
                => \A f \in Faces : /\ part.faces[f] = NULL_REGION
                                    /\ <<p, f>> \notin DOMAIN faceCanvases
          /\ part.textureSource # "none"
                => \A f \in Faces :
                      LET r == part.faces[f] IN
                      /\ r # NULL_REGION
                      /\ <<p, f>> \in DOMAIN faceCanvases
                      /\ r.w > 0 /\ r.h > 0
                      /\ r.x >= 0 /\ r.y >= 0
                      /\ r.x + r.w <= CANVAS_W
                      /\ r.y + r.h <= CANVAS_H
    /\ Cardinality(Faces) = 6
    /\ <<CANVAS_W, CANVAS_H>> = <<585, 600>>

\* the warm-up sync has drawn the textures of the regions that end nearest to
\* the right and the bottom edge of the sheet from inside the sheet
C29_Witness ==
    /\ lastOp = "warmup"
    /\ \A f \in {"back", "bottom"} :
          faceCanvases[<<"leftArm", f>>]
             = [uv \in TexSamples |->
                  PixelAt(toCanvasElement(GuideHidden(shirtCanvas)),
                          BODY_PARTS.leftArm.faces[f].x
                             + (uv[1] * BODY_PARTS.leftArm.faces[f].w) \div TEX_SIZE,
                          BODY_PARTS.leftArm.faces[f].y
                             + (uv[2] * BODY_PARTS.leftArm.faces[f].h) \div TEX_SIZE)]

\* the image is opened by Image.open(TEMPLATE_FILENAME).convert("RGBA")
Openable(file) == file.exists /\ file.decodes

\* C30: in every run of main the template file exists after download_template;
\* a file that was there is left as it was and no request is sent; a missing
\* file whose download ends in an error status or a timeout becomes the
\* fully transparent 585 x 559 placeholder; and each generation stores a
\* 585 x 559 image, which is the base image itself when the file cannot be
\* opened and shows the base image's pixels under the placeholder
C30_TemplateFailureNotFatal ==
    [][runs' = runs + 1
         => /\ templateFile'.exists
            /\ templateFile.exists
                  => templateFile' = templateFile /\ ~lastRun'.requested
            /\ ~templateFile.exists => lastRun'.requested
            /\ (/\ ~templateFile.exists
                /\ lastRun'.response \in {"http_error", "timeout"})
                  => /\ templateFile' = FileOf(Placeholder)
                     /\ templateFile'.image.size
                           = <<ROBLOX_WIDTH, ROBLOX_HEIGHT>>
                     /\ \A s \in SheetSamples :
                           PixelOf(templateFile'.image, s[1], s[2]).a = 0
            /\ lastRun'.generated
                  => /\ finalImage' # NoImage
                     /\ finalImage'.size = <<ROBLOX_WIDTH, ROBLOX_HEIGHT>>
                     /\ lastRun'.base.size = <<ROBLOX_WIDTH, ROBLOX_HEIGHT>>
                     /\ ~Openable(templateFile')
                           => finalImage' = lastRun'.base
                     /\ apply_template_overlay(lastRun'.base, FileMissing)
                           = lastRun'.base
                     /\ templateFile' = FileOf(Placeholder)
                           => \A s \in SheetSamples :
                                 PixelOf(finalImage', s[1], s[2])
                                    = PixelOf(lastRun'.base, s[1], s[2])
            /\ ~lastRun'.generated => finalImage' = finalImage]_vars

\* a generation was run while the template file was missing and its download
\* timed out: the file is the placeholder and the stored image shows the
\* generated picture inside the logo box
C30_Witness ==
    /\ lastRun.op = "generated"
    /\ lastRun.had = FileMissing
    /\ lastRun.response = "timeout"
    /\ templateFile = FileOf(Placeholder)
    /\ finalImage.size = <<ROBLOX_WIDTH, ROBLOX_HEIGHT>>
    /\ PixelOf(finalImage, 294, 137) = Pixel(<<"red">>, 255)
    /\ PixelOf(finalImage, 358, 201) = Pixel(<<"blue">>, 255)
    /\ PixelOf(finalImage, 0, 0) = Pixel(<<"avg", <<"red">>, <<"blue">>>>, 255)

====
